---- MODULE Spec2Model ----
(***************************************************************************)
(* The client-side search widget of the documentation theme                *)
(* (themes/velocity/assets/js/search.js) as a state machine, and the       *)
(* theme toggle of themes/velocity/assets/js/main.js.                      *)
(*                                                                         *)
(* Strings are sequences of one-character strings, so that toLowerCase,    *)
(* trim, includes and slice are computed as the code computes them.        *)
(* selectedIndex keeps the code's 0-based numbering (-1 = nothing          *)
(* selected); TLA+ sequences are 1-based, so the selected element of the   *)
(* rendered list is rendered[selectedIndex + 1].                           *)
(***************************************************************************)
EXTENDS Integers, Sequences, FiniteSets, TLC

\* ------------------------------------------------------------------ bounds

\* fetch() calls one page session may issue in the model
MaxFetches == 2

\* number of documents of the large index response
LargeSize == 12

\* handlers of one page session that may end in an uncaught exception
MaxUncaught == 1

\* --------------------------------------------------------------- constants

\* searchIndex.search: .slice(0, 10)
SearchLimit == 10

\* getSnippet: maxLength = 120
MaxLength == 120

\* getSnippet: Math.max(0, index - 40)
WindowBefore == 40

\* getSnippet: index + query.length + 80
WindowAfter == 80

NULL == "null"

\* ------------------------------------------------------------ string model

\* String.prototype.toLowerCase, one character
LowerChar(c) ==
  IF c = "A" THEN "a"
  ELSE IF c = "B" THEN "b"
  ELSE c

toLowerCase(s) == [i \in 1..Len(s) |-> LowerChar(s[i])]

\* Array.prototype.slice / String.prototype.slice for 0 <= from, to
slice(s, from, to) ==
  LET e == IF to > Len(s) THEN Len(s) ELSE to
  IN  IF from >= e THEN <<>> ELSE SubSeq(s, from + 1, e)

\* String.prototype.indexOf: the first 0-based offset of t in s, or -1
indexOf(s, t) ==
  LET hits == { i \in 0..(Len(s) - Len(t)) : SubSeq(s, i + 1, i + Len(t)) = t }
  IN  IF hits = {} THEN -1
      ELSE CHOOSE i \in hits : \A j \in hits : i <= j

\* String.prototype.includes
includes(s, t) == indexOf(s, t) # -1

IsSpace(c) == c = " "

\* String.prototype.trim
RECURSIVE trim(_)
trim(s) ==
  IF s = <<>> THEN s
  ELSE IF IsSpace(Head(s)) THEN trim(Tail(s))
  ELSE IF IsSpace(s[Len(s)]) THEN trim(SubSeq(s, 1, Len(s) - 1))
  ELSE s

\* --------------------------------------------------------------- the corpus

\* one object of /index.json
Doc(t, c, p) == [title |-> t, content |-> c, permalink |-> p]

\* a response holding no document
IndexEmpty == <<>>

\* a response of four documents: one with empty content, one matched by its
\* content only, one whose title and content differ in case only, one whose
\* content holds a parenthesis
IndexSmall ==
  << Doc(<<"A", "b">>, <<>>, "/s1"),
     Doc(<<"b">>, <<"b", " ", "a">>, "/s2"),
     Doc(<<"B">>, <<"b">>, "/s3"),
     Doc(<<"a", "(">>, <<"b", "(">>, "/s4") >>

\* the permalinks of the large response, unique within it
LargeLinks ==
  << "/l1", "/l2", "/l3", "/l4", "/l5", "/l6", "/l7", "/l8", "/l9", "/l10",
     "/l11", "/l12", "/l13", "/l14", "/l15", "/l16" >>

\* a response of LargeSize documents; all but the second hold an "a"
IndexLarge ==
  [i \in 1..LargeSize |->
     IF i = 2 THEN Doc(<<"b">>, <<"b", "b">>, LargeLinks[i])
     ELSE IF i % 2 = 0 THEN Doc(<<"A">>, <<>>, LargeLinks[i])
     ELSE Doc(<<"b">>, <<"b", "a">>, LargeLinks[i])]

\* the bodies /index.json may parse to
Responses == { IndexEmpty, IndexSmall, IndexLarge }

\* the values the user may leave in the query input
Queries ==
  { <<>>, <<" ">>, <<"a">>, <<"A">>, <<"b">>, <<"a", "b">>, <<" ", "a">>,
    <<"b", " ">>, <<"c">>, <<"(">> }

\* ------------------------------------------------------------------- state

VARIABLES
  modalOpen,      \* modal.classList.contains('open')
  scrollLocked,   \* document.body.style.overflow = 'hidden'
  inputValue,     \* input.value
  searchIndex,    \* NULL or "set"
  searchData,     \* the array searchIndex.search closes over
  selectedIndex,  \* 0-based, -1 = nothing selected
  view,           \* what results.innerHTML shows: template, idle, empty, list
  rendered,       \* the items rendered as .search-result elements
  selectedElems,  \* 0-based positions of the elements carrying class 'selected'
  fetchCount,     \* fetch('/index.json') calls issued
  fetching,       \* loadSearchIndex calls suspended at await fetch(...)
  parsing,        \* loadSearchIndex calls suspended at await response.json()
  rejectedLoads,  \* loadSearchIndex promises that rejected
  location,       \* window.location.href once assigned, else NULL
  lastEvent,      \* the handler or continuation that ran last
  prevSelected,   \* selectedIndex when that handler started
  prevRendered,   \* rendered when that handler started
  clicked,        \* position of the rendered result the last click hit, else 0
  threw,          \* that handler ended in an uncaught exception
  uncaught,       \* handlers that ended in an uncaught exception so far
  snContent,      \* getSnippet: the content argument of the last call
  snQuery,        \* getSnippet: the query argument of the last call
  snOut,          \* getSnippet: what the last call returned, or Thrown
  themeStored,    \* localStorage.getItem('velocity-theme'), NULL when absent
  themeApplied,   \* the data-theme attribute of <html>, NULL when absent
  systemLight,    \* matchMedia('(prefers-color-scheme: light)').matches
  iconsTheme,     \* the theme the toggle's icons were last set for
  logoTheme,      \* the theme the logo image was last set for
  explicitChoice, \* the user has clicked the theme toggle
  themeEvent,     \* the listener of the theme script that ran last
  prevThemeEvent, \* the one that ran before it
  themeBefore,    \* the theme in effect when the last listener started
  themeBefore2,   \* the theme in effect when the one before it started
  hasSidebar,     \* the page has a .docs-sidebar element (isDocsPage)
  hasMenu,        \* the page has a #mobile-menu element
  sidebarOpen,    \* the sidebar carries class 'open'
  menuOpen,       \* the mobile menu carries class 'open'
  toggleOpen,     \* #mobile-nav-toggle carries class 'open'
  ariaExpanded,   \* the toggle's aria-expanded attribute
  navEvent,       \* where the last click of the navigation listeners landed
  activeTriggers, \* per tab container, the triggers carrying class 'active'
  activePanels,   \* per tab container, the panels carrying class 'active'
  tabClicked,     \* << container, trigger >> of the last tab click, else << >>
  panelsBefore    \* the active panels of that container when it was clicked

\* the state of the widget
widgetVars ==
  << modalOpen, scrollLocked, inputValue, searchIndex, searchData,
     selectedIndex, view, rendered, fetchCount, fetching, parsing,
     selectedElems, rejectedLoads, location, lastEvent, prevSelected,
     prevRendered, clicked, threw, uncaught >>

\* one call of getSnippet taken on its own
snippetVars == << snContent, snQuery, snOut >>

\* the state of the theme toggle
themeVars ==
  << themeStored, themeApplied, systemLight, iconsTheme, logoTheme,
     explicitChoice, themeEvent, prevThemeEvent, themeBefore, themeBefore2 >>

\* the state of the mobile navigation and of the tab containers
pageVars ==
  << hasSidebar, hasMenu, sidebarOpen, menuOpen, toggleOpen, ariaExpanded,
     navEvent, activeTriggers, activePanels, tabClicked, panelsBefore >>

vars == << widgetVars, snippetVars, themeVars, pageVars >>

loadVars == << searchIndex, searchData, fetchCount, fetching, parsing, rejectedLoads >>
resultVars == << view, rendered, selectedElems >>
modalVars == << modalOpen, scrollLocked >>

WidgetInit ==
  /\ modalOpen = FALSE
  /\ scrollLocked = FALSE
  /\ inputValue = <<>>
  /\ searchIndex = NULL
  /\ searchData = <<>>
  /\ selectedIndex = -1
  /\ view = "template"
  /\ rendered = <<>>
  /\ selectedElems = {}
  /\ fetchCount = 0
  /\ fetching = 0
  /\ parsing = 0
  /\ rejectedLoads = 0
  /\ location = NULL
  /\ lastEvent = "load"
  /\ prevSelected = -1
  /\ prevRendered = <<>>
  /\ clicked = 0
  /\ threw = FALSE
  /\ uncaught = 0

\* no call of getSnippet is looked at on its own
SnippetIdle ==
  /\ snContent = <<>>
  /\ snQuery = <<>>
  /\ snOut = <<>>

\* the theme script on a page of a first visit, the system preferring dark
ThemeIdle ==
  /\ themeStored = NULL
  /\ themeApplied = NULL
  /\ systemLight = FALSE
  /\ iconsTheme = "dark"
  /\ logoTheme = "dark"
  /\ explicitChoice = FALSE
  /\ themeEvent = "load"
  /\ prevThemeEvent = "load"
  /\ themeBefore = "dark"
  /\ themeBefore2 = "dark"

\* tab containers the page holds, triggers each of them holds
TabContainers == 2
TabCount == 3

Containers == 1..TabContainers
Triggers == 1..TabCount

\* the .tab-panel elements of a container; the last trigger's data-tab names
\* an id no element of its container has
Panels == 1..(TabCount - 1)

\* a page without sidebar and mobile menu, no tab marked active
PageIdle ==
  /\ hasSidebar = FALSE
  /\ hasMenu = FALSE
  /\ sidebarOpen = FALSE
  /\ menuOpen = FALSE
  /\ toggleOpen = FALSE
  /\ ariaExpanded = "false"
  /\ navEvent = "load"
  /\ activeTriggers = [c \in Containers |-> {}]
  /\ activePanels = [c \in Containers |-> {}]
  /\ tabClicked = <<>>
  /\ panelsBefore = {}

Init ==
  /\ WidgetInit
  /\ SnippetIdle
  /\ ThemeIdle
  /\ PageIdle

\* bookkeeping: handler ev runs now, on the i-th rendered result if i > 0,
\* and returns (t = FALSE) or ends in an uncaught exception (t = TRUE)
RanEnding(ev, i, t) ==
  /\ lastEvent' = ev
  /\ prevSelected' = selectedIndex
  /\ prevRendered' = rendered
  /\ clicked' = i
  /\ threw' = t
  /\ (t => uncaught < MaxUncaught)
  /\ uncaught' = (IF t THEN uncaught + 1 ELSE uncaught)
  /\ UNCHANGED << snippetVars, themeVars, pageVars >>

\* bookkeeping: handler ev runs now, on the i-th rendered result if i > 0
RanAt(ev, i) == RanEnding(ev, i, FALSE)

\* bookkeeping: handler ev runs now
Ran(ev) == RanAt(ev, 0)

\* the page is still the one the script runs in
PageAlive == location = NULL


\* ------------------------------------------------------------ QueryMatcher

\* variant of Matches: the title and the content are not lower-cased
MatchesCaseSensitive(item, q) ==
  \/ includes(item.title, q)
  \/ (item.content # <<>> /\ includes(item.content, q))

\* item => title.toLowerCase().includes(q) ||
\*         (content && content.toLowerCase().includes(q))
Matches(item, q) ==
  \/ includes(toLowerCase(item.title), q)
  \/ (item.content # <<>> /\ includes(toLowerCase(item.content), q))

\* variant of search: the .slice(0, 10) is missing
searchUnsliced(query, data) ==
  LET q == toLowerCase(query)
      Keep(item) == Matches(item, q)
  IN  SelectSeq(data, Keep)

\* searchIndex.search(query), over the array searchData holds when it runs
search(query, data) ==
  LET q == toLowerCase(query)
      Keep(item) == Matches(item, q)
  IN  slice(SelectSeq(data, Keep), 0, SearchLimit)

\* variant of SearchSkipped: !query instead of !query.trim()
SearchSkippedUntrimmed(query) == searchIndex = NULL \/ query = <<>>

\* the guard of performSearch: nothing is searched
SearchSkipped(query) == searchIndex = NULL \/ trim(query) = <<>>

\* the items performSearch(query) hands to renderResults
performSearchItems(query) ==
  IF SearchSkipped(query) THEN <<>> ELSE search(query, searchData)

\* --------------------------------------------------------- SnippetExtractor

\* '...'
Ellipsis == << ".", ".", "." >>

\* the tags of '<mark>$1</mark>', one element each
MarkOpen == "<mark>"
MarkClose == "</mark>"

\* new RegExp(...) throws SyntaxError; getSnippet does not catch it
Thrown == << "SyntaxError" >>

\* new RegExp(`(${query})`, 'gi') is accepted: over the characters modelled,
\* a '(' of the query is never closed (unterminated group) and a '*' needs an
\* atom before it that is not itself a '*' (nothing to repeat)
PatternValid(query) ==
  /\ \A k \in DOMAIN query : query[k] # "("
  /\ \A k \in DOMAIN query :
       query[k] = "*" => (k > 1 /\ query[k - 1] # "*")

\* the atoms of the pattern: a character or '.', starred or not
RECURSIVE Atoms(_)
Atoms(query) ==
  IF query = <<>> THEN <<>>
  ELSE IF Len(query) >= 2 /\ query[2] = "*"
  THEN << [ch |-> query[1], star |-> TRUE] >> \o Atoms(SubSeq(query, 3, Len(query)))
  ELSE << [ch |-> query[1], star |-> FALSE] >> \o Atoms(Tail(query))

\* one atom against one character, flag i; '.' takes any character here
AtomMatches(ch, c) ==
  IF ch = "." THEN TRUE ELSE LowerChar(ch) = LowerChar(c)

\* the longest run of characters of s from offset p that atom ch takes
Run(ch, s, p) ==
  LET stop == { j \in p..Len(s) : j = Len(s) \/ ~ AtomMatches(ch, s[j + 1]) }
  IN  (CHOOSE j \in stop : \A h \in stop : j <= h) - p

\* where the match of atoms k.. that the engine prefers ends when it starts
\* at offset p of s, or -1: a starred atom is greedy and backtracks
RECURSIVE MatchEnd(_, _, _, _)
RECURSIVE TryStar(_, _, _, _, _)
MatchEnd(atoms, k, s, p) ==
  IF k > Len(atoms) THEN p
  ELSE IF atoms[k].star THEN TryStar(atoms, k, s, p, Run(atoms[k].ch, s, p))
  ELSE IF p < Len(s) /\ AtomMatches(atoms[k].ch, s[p + 1])
  THEN MatchEnd(atoms, k + 1, s, p + 1)
  ELSE -1

TryStar(atoms, k, s, p, n) ==
  IF n < 0 THEN -1
  ELSE LET r == MatchEnd(atoms, k + 1, s, p + n)
       IN  IF r # -1 THEN r ELSE TryStar(atoms, k, s, p, n - 1)

\* s.replace(regex, '<mark>$1</mark>') scans s left to right. One step of
\* the scan at offset pos: what it appends to the result ...
ReplacePiece(atoms, s, pos) ==
  IF pos > Len(s) THEN <<>>
  ELSE LET e == MatchEnd(atoms, 1, s, pos)
           skipped == IF pos < Len(s) THEN << s[pos + 1] >> ELSE <<>>
       IN  IF e = -1 THEN skipped
           ELSE IF e = pos THEN << MarkOpen, MarkClose >> \o skipped
           ELSE << MarkOpen >> \o SubSeq(s, pos + 1, e) \o << MarkClose >>

\* ... and the offset it goes on from: the end of the match, or one
\* character further when nothing or the empty string matched at pos
ReplaceNext(atoms, s, pos) ==
  IF pos > Len(s) THEN pos
  ELSE LET e == MatchEnd(atoms, 1, s, pos)
       IN  IF e = -1 \/ e = pos THEN pos + 1 ELSE e

\* the offset reached after n steps from pos (the steps are split in halves,
\* and the offset between the halves is bound as a value, to keep the
\* evaluation shallow)
RECURSIVE ReplacePos(_, _, _, _)
ReplacePos(atoms, s, pos, n) ==
  IF n = 0 THEN pos
  ELSE IF n = 1 THEN ReplaceNext(atoms, s, pos)
  ELSE CHOOSE r \in { ReplacePos(atoms, s, mid, n - (n \div 2)) :
                        mid \in { ReplacePos(atoms, s, pos, n \div 2) } } : TRUE

\* what n steps from pos append
RECURSIVE ReplaceSteps(_, _, _, _)
ReplaceSteps(atoms, s, pos, n) ==
  IF n = 0 THEN <<>>
  ELSE IF n = 1 THEN ReplacePiece(atoms, s, pos)
  ELSE CHOOSE r \in { ReplaceSteps(atoms, s, pos, n \div 2)
                          \o ReplaceSteps(atoms, s, mid, n - (n \div 2)) :
                        mid \in { ReplacePos(atoms, s, pos, n \div 2) } } : TRUE

\* the whole scan: Len(s) + 1 steps reach the end from offset 0
ReplaceAll(atoms, s) == ReplaceSteps(atoms, s, 0, Len(s) + 1)

\* the highlighting of getSnippet (lines 96-98)
Highlight(snippet, query) ==
  IF PatternValid(query)
  THEN ReplaceAll(Atoms(query), snippet)
  ELSE Thrown

\* variant of NotFoundSnippet: the content is not cut
NotFoundSnippetWhole(content, maxLength) == content \o Ellipsis

\* if (index === -1) return content.slice(0, maxLength) + '...'
NotFoundSnippet(content, maxLength) == slice(content, 0, maxLength) \o Ellipsis

\* Math.max(0, index - 40)
WindowStart(index) ==
  IF index - WindowBefore > 0 THEN index - WindowBefore ELSE 0

\* Math.min(content.length, index + query.length + 80)
WindowEnd(content, query, index) ==
  IF index + Len(query) + WindowAfter < Len(content)
  THEN index + Len(query) + WindowAfter
  ELSE Len(content)

\* content.slice(start, end) with the ellipses of lines 93-94
Excerpt(content, start, end) ==
  (IF start > 0 THEN Ellipsis ELSE <<>>)
    \o slice(content, start, end)
    \o (IF end < Len(content) THEN Ellipsis ELSE <<>>)

\* getSnippet(content, query, maxLength): the string returned, or Thrown
getSnippet(content, query, maxLength) ==
  IF content = <<>> \/ query = <<>> THEN <<>>
  ELSE LET index == indexOf(toLowerCase(content), toLowerCase(query))
       IN  IF index = -1 THEN NotFoundSnippet(content, maxLength)
           ELSE Highlight(Excerpt(content, WindowStart(index),
                                  WindowEnd(content, query, index)), query)

\* ---------------------------------------------------- ResultListController

\* items.map(... getSnippet(item.content, query) ...) throws: one of the
\* calls throws, and results.innerHTML is not assigned
SnippetThrows(items, query) ==
  \E k \in DOMAIN items : getSnippet(items[k].content, query, MaxLength) = Thrown

\* variant of renderResults: returns at once when there are no items
renderResultsKeepsList(items, value, sel) ==
  IF Len(items) = 0 \/ SnippetThrows(items, value)
  THEN UNCHANGED << view, rendered, selectedElems >>
  ELSE /\ view' = "list"
       /\ rendered' = items
       /\ selectedElems' = { i \in 0..(Len(items) - 1) : i = sel }

\* variant of renderResults: the prompt is shown whenever there are no items
renderResultsPromptWhenEmpty(items, value, sel) ==
  IF Len(items) = 0
  THEN /\ view' = "idle"
       /\ rendered' = <<>>
       /\ selectedElems' = {}
  ELSE IF SnippetThrows(items, value)
  THEN UNCHANGED << view, rendered, selectedElems >>
  ELSE /\ view' = "list"
       /\ rendered' = items
       /\ selectedElems' = { i \in 0..(Len(items) - 1) : i = sel }

\* renderResults(items), with value = input.value and sel = selectedIndex
\* when it runs
renderResults(items, value, sel) ==
  IF Len(items) = 0
  THEN /\ view' = (IF value # <<>> THEN "empty" ELSE "idle")
       /\ rendered' = <<>>
       /\ selectedElems' = {}
  ELSE IF SnippetThrows(items, value)
  THEN UNCHANGED << view, rendered, selectedElems >>
  ELSE /\ view' = "list"
       /\ rendered' = items
       /\ selectedElems' = { i \in 0..(Len(items) - 1) : i = sel }

\* performSearch(query) ends in an exception that nothing catches
performSearchThrows(query) ==
  SnippetThrows(performSearchItems(query), query)

\* performSearch(query)
performSearch(query, sel) ==
  renderResults(performSearchItems(query), query, sel)

\* variant of NextIndex: 'down' does not wrap
NextIndexUnwrapped(direction, sel, n) ==
  IF direction = "down" THEN sel + 1
  ELSE IF sel <= 0 THEN n - 1 ELSE sel - 1

\* variant of NextIndex: 'down' stays on the last result
NextIndexDownSticks(direction, sel, n) ==
  IF direction = "down" THEN (IF sel + 1 < n THEN sel + 1 ELSE sel)
  ELSE IF sel <= 0 THEN n - 1 ELSE sel - 1

\* variant of NextIndex: 'up' wraps on sel < 0 only
NextIndexUpFromZero(direction, sel, n) ==
  IF direction = "down" THEN (sel + 1) % n
  ELSE IF sel < 0 THEN n - 1 ELSE sel - 1

\* the assignment of navigateResults, n = resultElements.length > 0
NextIndex(direction, sel, n) ==
  IF direction = "down" THEN (sel + 1) % n
  ELSE IF sel <= 0 THEN n - 1 ELSE sel - 1

\* variant of navigateResults: the early return on an empty list is missing
navigateResultsUnguarded(direction) ==
  LET n == Len(rendered)
      new == IF direction = "down" THEN selectedIndex + 1
             ELSE IF selectedIndex <= 0 THEN n - 1 ELSE selectedIndex - 1
  IN  /\ selectedIndex' = new
      /\ selectedElems' =
            (selectedElems \ {selectedIndex}) \cup ({new} \cap 0..(n - 1))

\* navigateResults(direction)
navigateResults(direction) ==
  IF Len(rendered) = 0
  THEN UNCHANGED << selectedIndex, selectedElems >>
  ELSE LET n == Len(rendered)
           new == NextIndex(direction, selectedIndex, n)
       IN  /\ selectedIndex' = new
           /\ selectedElems' =
                 (selectedElems \ {selectedIndex}) \cup ({new} \cap 0..(n - 1))

\* variant of selectResult: takes the first result, whatever is selected
selectResultFirst ==
  IF Len(rendered) > 0
  THEN location' = rendered[1].permalink
  ELSE UNCHANGED location

\* selectResult()
selectResult ==
  IF selectedIndex >= 0 /\ selectedIndex + 1 \in DOMAIN rendered
  THEN location' = rendered[selectedIndex + 1].permalink
  ELSE UNCHANGED location

\* ------------------------------------------------------------- IndexLoader

\* variant of LoadReturnsEarly: the guard is missing
LoadNeverReturnsEarly == FALSE

\* if (searchIndex) return;
LoadReturnsEarly == searchIndex # NULL

\* loadSearchIndex() up to its first await
loadSearchIndex ==
  IF LoadReturnsEarly
  THEN UNCHANGED loadVars
  ELSE /\ fetchCount < MaxFetches
       /\ fetchCount' = fetchCount + 1
       /\ fetching' = fetching + 1
       /\ UNCHANGED << searchIndex, searchData, parsing, rejectedLoads >>

\* catch (e) { console.error(...) }: the async function returns normally
LoadCatch == UNCHANGED rejectedLoads

\* fetch('/index.json') resolves; response.json() is called
FetchResolve ==
  /\ PageAlive
  /\ fetching > 0
  /\ fetching' = fetching - 1
  /\ parsing' = parsing + 1
  /\ Ran("fetch-resolve")
  /\ UNCHANGED << modalVars, inputValue, searchIndex, searchData,
                  selectedIndex, resultVars, fetchCount, rejectedLoads, location >>

\* variant of FetchReject: the failure is kept as an empty index
FetchRejectMemoizes ==
  /\ PageAlive
  /\ fetching > 0
  /\ fetching' = fetching - 1
  /\ searchIndex' = "set"
  /\ LoadCatch
  /\ Ran("load-failed")
  /\ UNCHANGED << modalVars, inputValue, searchData,
                  selectedIndex, resultVars, fetchCount, parsing, location >>

\* fetch('/index.json') rejects (network error)
FetchReject ==
  /\ PageAlive
  /\ fetching > 0
  /\ fetching' = fetching - 1
  /\ LoadCatch
  /\ Ran("load-failed")
  /\ UNCHANGED << modalVars, inputValue, searchIndex, searchData,
                  selectedIndex, resultVars, fetchCount, parsing, location >>

\* variant of JsonResolve: a load that ends after close() is dropped
JsonResolveDropsWhenClosed(data) ==
  /\ PageAlive
  /\ parsing > 0
  /\ parsing' = parsing - 1
  /\ searchData' = (IF modalOpen THEN data ELSE searchData)
  /\ searchIndex' = (IF modalOpen THEN "set" ELSE searchIndex)
  /\ Ran("load-done")
  /\ UNCHANGED << modalVars, inputValue, selectedIndex, resultVars,
                  fetchCount, fetching, rejectedLoads, location >>

\* response.json() resolves to data; searchData and searchIndex are assigned
JsonResolve(data) ==
  /\ PageAlive
  /\ parsing > 0
  /\ parsing' = parsing - 1
  /\ searchData' = data
  /\ searchIndex' = "set"
  /\ Ran("load-done")
  /\ UNCHANGED << modalVars, inputValue, selectedIndex, resultVars,
                  fetchCount, fetching, rejectedLoads, location >>

\* response.json() rejects (malformed JSON); nothing is assigned
JsonReject ==
  /\ PageAlive
  /\ parsing > 0
  /\ parsing' = parsing - 1
  /\ LoadCatch
  /\ Ran("load-failed")
  /\ UNCHANGED << modalVars, inputValue, searchIndex, searchData,
                  selectedIndex, resultVars, fetchCount, fetching, location >>

\* --------------------------------------------------------- ModalController

\* variant of openSearch: classList.toggle instead of classList.add
openSearchToggles ==
  /\ modalOpen' = ~modalOpen
  /\ scrollLocked' = TRUE
  /\ loadSearchIndex
  /\ UNCHANGED << inputValue, selectedIndex, resultVars, location >>

\* openSearch()
openSearch ==
  /\ modalOpen' = TRUE
  /\ scrollLocked' = TRUE
  /\ loadSearchIndex
  /\ UNCHANGED << inputValue, selectedIndex, resultVars, location >>

\* variant of closeSearch: body.style.overflow is not restored
closeSearchKeepsScrollLock ==
  /\ modalOpen' = FALSE
  /\ inputValue' = <<>>
  /\ selectedIndex' = -1
  /\ renderResults(<<>>, <<>>, -1)
  /\ UNCHANGED << scrollLocked, loadVars, location >>

\* variant of closeSearch: selectedIndex is not reset
closeSearchKeepsSelection ==
  /\ modalOpen' = FALSE
  /\ scrollLocked' = FALSE
  /\ inputValue' = <<>>
  /\ renderResults(<<>>, <<>>, selectedIndex)
  /\ UNCHANGED << selectedIndex, loadVars, location >>

\* variant of closeSearch: the input is not cleared
closeSearchKeepsInput ==
  /\ modalOpen' = FALSE
  /\ scrollLocked' = FALSE
  /\ selectedIndex' = -1
  /\ renderResults(<<>>, inputValue, -1)
  /\ UNCHANGED << inputValue, loadVars, location >>

\* closeSearch()
closeSearch ==
  /\ modalOpen' = FALSE
  /\ scrollLocked' = FALSE
  /\ inputValue' = <<>>
  /\ selectedIndex' = -1
  /\ renderResults(<<>>, <<>>, -1)
  /\ UNCHANGED << loadVars, location >>

\* ----------------------------------------------------------------- events

\* document 'keydown' with Ctrl/Cmd+K
KeydownCtrlK ==
  /\ PageAlive
  /\ openSearch
  /\ Ran("open")

\* 'click' on #search-trigger or #search-btn
TriggerClick ==
  /\ PageAlive
  /\ openSearch
  /\ Ran("open")

\* variant of KeydownEscape: closeSearch is called whatever the modal's state
KeydownEscapeAlways ==
  /\ PageAlive
  /\ closeSearch
  /\ Ran("escape")

\* document 'keydown' with Escape
KeydownEscape ==
  /\ PageAlive
  /\ IF modalOpen THEN closeSearch ELSE UNCHANGED << modalVars, inputValue, selectedIndex, resultVars, loadVars, location >>
  /\ Ran("escape")

\* modal 'click' whose target is the modal element itself (the backdrop)
BackdropClick ==
  /\ PageAlive
  /\ modalOpen
  /\ closeSearch
  /\ Ran("backdrop")

\* variant of ContentClick: the test e.target === modal is missing
ContentClickCloses ==
  /\ PageAlive
  /\ modalOpen
  /\ closeSearch
  /\ Ran("content-click")

\* modal 'click' whose target is inside the modal's content and on no
\* rendered result: neither the modal's nor the results' listener acts
ContentClick ==
  /\ PageAlive
  /\ modalOpen
  /\ Ran("content-click")
  /\ UNCHANGED << modalVars, inputValue, selectedIndex, resultVars, loadVars,
                  location >>

\* variant of InputEvent: selectedIndex is not reset
InputEventKeepsSelection(v) ==
  /\ PageAlive
  /\ modalOpen
  /\ inputValue' = v
  /\ performSearch(v, selectedIndex)
  /\ RanEnding("input", 0, performSearchThrows(v))
  /\ UNCHANGED << modalVars, selectedIndex, loadVars, location >>

\* input 'input': the user leaves value v in the query input
InputEvent(v) ==
  /\ PageAlive
  /\ modalOpen
  /\ inputValue' = v
  /\ selectedIndex' = -1
  /\ performSearch(v, -1)
  /\ RanEnding("input", 0, performSearchThrows(v))
  /\ UNCHANGED << modalVars, loadVars, location >>

\* input 'keydown' with ArrowDown or ArrowUp
InputKeydownArrow(direction) ==
  /\ PageAlive
  /\ modalOpen
  /\ navigateResults(direction)
  /\ Ran(direction)
  /\ UNCHANGED << modalVars, inputValue, view, rendered, loadVars, location >>

\* input 'keydown' with Enter
InputKeydownEnter ==
  /\ PageAlive
  /\ modalOpen
  /\ selectResult
  /\ Ran("enter")
  /\ UNCHANGED << modalVars, inputValue, selectedIndex, resultVars, loadVars >>

\* variant of ResultClick: follows the selected result when there is one
ResultClickSelected(i) ==
  /\ PageAlive
  /\ modalOpen
  /\ i \in DOMAIN rendered
  /\ location' = (IF selectedIndex >= 0
                  THEN rendered[selectedIndex + 1].permalink
                  ELSE rendered[i].permalink)
  /\ RanAt("click", i)
  /\ UNCHANGED << modalVars, inputValue, selectedIndex, resultVars, loadVars >>

\* results 'click' on the i-th rendered result
ResultClick(i) ==
  /\ PageAlive
  /\ modalOpen
  /\ i \in DOMAIN rendered
  /\ location' = rendered[i].permalink
  /\ RanAt("click", i)
  /\ UNCHANGED << modalVars, inputValue, selectedIndex, resultVars, loadVars >>

Next ==
  \/ KeydownCtrlK
  \/ TriggerClick
  \/ KeydownEscape
  \/ BackdropClick
  \/ ContentClick
  \/ \E v \in Queries : InputEvent(v)
  \/ \E d \in {"up", "down"} : InputKeydownArrow(d)
  \/ InputKeydownEnter
  \/ \E i \in 1..SearchLimit : ResultClick(i)
  \/ FetchResolve
  \/ FetchReject
  \/ \E data \in Responses : JsonResolve(data)
  \/ JsonReject

Spec == Init /\ [][Next]_vars

\* ------------------------------------------- getSnippet taken on its own

\* snOut while the call has not returned
Pending == << "pending" >>

\* n filler characters
Pad(n) == [i \in 1..n |-> "x"]

\* a text of len characters holding word w at offset at (filler elsewhere)
Text(len, at, w) ==
  IF at + Len(w) <= len
  THEN Pad(at) \o w \o Pad(len - at - Len(w))
  ELSE Pad(len)

\* the lengths of the contents tried
SnLengths == { 0, 5, 119, 120, 121, 200, 500 }

\* the offsets a word is put at
SnOffsets == { 0, 1, 39, 40, 41, 115, 200, 417, 418, 420 }

\* the words put into the contents
SnWords ==
  { <<>>, <<"a", "B">>, <<"a", "b", "x", "A", "B">>, <<".">>, <<"a", "*">>,
    <<"(">>, <<"b", " ", "a">>, <<"<", "b", ">", "&">> }

\* the content arguments tried
SnContents ==
  { Text(len, at, w) : len \in SnLengths, at \in SnOffsets, w \in SnWords }

\* the query arguments tried
SnQueries ==
  { <<>>, <<"a", "b">>, <<"A", "B">>, <<"b", "a">>, <<"x">>, <<".">>,
    <<"a", "*">>, <<"*">>, <<"(">>, <<" ">>, <<"<">> }

\* the arguments of one call
SnippetInit ==
  /\ WidgetInit
  /\ ThemeIdle
  /\ PageIdle
  /\ snContent \in SnContents
  /\ snQuery \in SnQueries
  /\ snOut = Pending

\* the call getSnippet(content, query) of renderResults returns or throws
Extract ==
  /\ snOut = Pending
  /\ snOut' = getSnippet(snContent, snQuery, MaxLength)
  /\ UNCHANGED << widgetVars, themeVars, pageVars, snContent, snQuery >>

SnippetNext == Extract

SnippetSpec == SnippetInit /\ [][SnippetNext]_vars

\* ------------------------------------------------- the theme toggle (main.js)

Themes == { "dark", "light" }

\* getSystemTheme()
getSystemTheme == IF systemLight THEN "light" ELSE "dark"

\* getTheme(): localStorage.getItem(STORAGE_KEY) || getSystemTheme()
getTheme == IF themeStored # NULL THEN themeStored ELSE getSystemTheme

\* updateIcons(theme) and updateLogo(theme), the elements being on the page
updateIconsAndLogo(theme) ==
  /\ iconsTheme' = theme
  /\ logoTheme' = theme

\* setTheme(theme)
setTheme(theme) ==
  /\ themeApplied' = theme
  /\ themeStored' = theme
  /\ updateIconsAndLogo(theme)

\* the theme the page is shown in: the data-theme attribute once it is set,
\* before that the theme the script set its icons for
ThemeInEffect == IF themeApplied # NULL THEN themeApplied ELSE iconsTheme

\* bookkeeping: listener ev of the theme script runs now
ThemeRan(ev) ==
  /\ themeEvent' = ev
  /\ prevThemeEvent' = themeEvent
  /\ themeBefore' = ThemeInEffect
  /\ themeBefore2' = themeBefore
  /\ UNCHANGED << widgetVars, snippetVars, pageVars >>

\* variant of toggleTheme: current is read from the system preference
toggleThemeFromSystem ==
  LET current == getSystemTheme
      next == IF current = "dark" THEN "light" ELSE "dark"
  IN  setTheme(next)

\* toggleTheme()
toggleTheme ==
  LET current == getTheme
      next == IF current = "dark" THEN "light" ELSE "dark"
  IN  setTheme(next)

\* 'click' on #theme-toggle
ThemeToggleClick ==
  /\ toggleTheme
  /\ explicitChoice' = TRUE
  /\ ThemeRan("toggle")
  /\ UNCHANGED systemLight

\* 'change' of matchMedia('(prefers-color-scheme: light)'), e.matches = m
SystemThemeChange(m) ==
  /\ m # systemLight
  /\ systemLight' = m
  /\ IF themeStored = NULL
     THEN setTheme(IF m THEN "light" ELSE "dark")
     ELSE UNCHANGED << themeApplied, themeStored, iconsTheme, logoTheme >>
  /\ ThemeRan("system")
  /\ UNCHANGED explicitChoice

\* another page of the site is loaded, localStorage kept: the script's
\* 'Initialize' lines run, the system preference being m by then and the
\* markup having left data-theme absent or set to the theme of the page
ThemePageLoad(m, markup) ==
  /\ systemLight' = m
  /\ UNCHANGED << themeStored, explicitChoice >>
  /\ themeApplied' = (IF markup THEN getTheme' ELSE NULL)
  /\ updateIconsAndLogo(getTheme')
  /\ ThemeRan("load")

\* the first page load of a browser: nothing or an earlier choice is stored
ThemeInit ==
  /\ WidgetInit
  /\ SnippetIdle
  /\ PageIdle
  /\ themeStored \in { NULL } \cup Themes
  /\ systemLight \in BOOLEAN
  /\ themeApplied \in { NULL, getTheme }
  /\ iconsTheme = getTheme
  /\ logoTheme = getTheme
  /\ explicitChoice = (themeStored # NULL)
  /\ themeEvent = "load"
  /\ prevThemeEvent = "load"
  /\ themeBefore = getTheme
  /\ themeBefore2 = getTheme

ThemeNext ==
  \/ ThemeToggleClick
  \/ \E m \in BOOLEAN : SystemThemeChange(m)
  \/ \E m \in BOOLEAN, markup \in BOOLEAN : ThemePageLoad(m, markup)

ThemeSpec == ThemeInit /\ [][ThemeNext]_vars

\* ------------------------------- mobile navigation and tabs (main.js)

navVars == << sidebarOpen, menuOpen, toggleOpen, ariaExpanded, navEvent >>
tabVars == << activeTriggers, activePanels, tabClicked, panelsBefore >>

\* where a click can land: on the toggle, inside the sidebar, inside the
\* mobile menu but on no link, on a link of the mobile menu, anywhere else
ClickTargets == { "sidebar", "menu", "link", "outside" }

\* toggle.classList.toggle('open', isOpen);
\* toggle.setAttribute('aria-expanded', isOpen ? 'true' : 'false')
setToggle(isOpen) ==
  /\ toggleOpen' = isOpen
  /\ ariaExpanded' = (IF isOpen THEN "true" ELSE "false")

\* 'click' on #mobile-nav-toggle; stopPropagation keeps it from document
NavToggleClick ==
  /\ IF hasSidebar
     THEN /\ sidebarOpen' = ~ sidebarOpen
          /\ setToggle(~ sidebarOpen)
          /\ UNCHANGED menuOpen
     ELSE IF hasMenu
     THEN /\ menuOpen' = ~ menuOpen
          /\ setToggle(~ menuOpen)
          /\ UNCHANGED sidebarOpen
     ELSE UNCHANGED << sidebarOpen, menuOpen, toggleOpen, ariaExpanded >>
  /\ navEvent' = "toggle"
  /\ UNCHANGED << hasSidebar, hasMenu, tabVars, widgetVars, snippetVars, themeVars >>

\* the 'click' listener of a link of the mobile menu
menuLinkClick(target) ==
  IF target = "link"
  THEN [menu |-> FALSE, toggle |-> FALSE, aria |-> "false"]
  ELSE [menu |-> menuOpen, toggle |-> toggleOpen, aria |-> ariaExpanded]

\* a click that lands outside the toggle: the link's listener if it is on a
\* link of the mobile menu, then the 'click' listener of document; sidebar
\* and mobile menu are separate elements
DocumentClick(target) ==
  /\ target = "sidebar" => hasSidebar
  /\ target \in { "menu", "link" } => hasMenu
  /\ LET after == menuLinkClick(target)
     IN  IF hasSidebar /\ target # "sidebar"
         THEN /\ sidebarOpen' = FALSE
              /\ toggleOpen' = FALSE
              /\ ariaExpanded' = "false"
              /\ menuOpen' = after.menu
         ELSE IF hasMenu /\ target \notin { "menu", "link" }
         THEN /\ menuOpen' = FALSE
              /\ toggleOpen' = FALSE
              /\ ariaExpanded' = "false"
              /\ UNCHANGED sidebarOpen
         ELSE /\ menuOpen' = after.menu
              /\ toggleOpen' = after.toggle
              /\ ariaExpanded' = after.aria
              /\ UNCHANGED sidebarOpen
  /\ navEvent' = target
  /\ UNCHANGED << hasSidebar, hasMenu, tabVars, widgetVars, snippetVars, themeVars >>

\* the panel the data-tab of trigger t names, 0 when its container has none
Target(t) == IF t \in Panels THEN t ELSE 0

\* variant of TabClick: the panels keep their class 'active'
TabClickKeepsPanels(c, t) ==
  /\ activeTriggers' = [activeTriggers EXCEPT ![c] = {t}]
  /\ activePanels' =
       [activePanels EXCEPT ![c] = activePanels[c] \cup ({Target(t)} \cap Panels)]
  /\ tabClicked' = << c, t >>
  /\ panelsBefore' = activePanels[c]
  /\ UNCHANGED << hasSidebar, hasMenu, navVars, widgetVars, snippetVars, themeVars >>

\* 'click' on trigger t of tab container c
TabClick(c, t) ==
  /\ activeTriggers' = [activeTriggers EXCEPT ![c] = {t}]
  /\ activePanels' = [activePanels EXCEPT ![c] = {Target(t)} \cap Panels]
  /\ tabClicked' = << c, t >>
  /\ panelsBefore' = activePanels[c]
  /\ UNCHANGED << hasSidebar, hasMenu, navVars, widgetVars, snippetVars, themeVars >>

\* DOMContentLoaded: init() has run initMobileNav and initTabs on a page
\* whose markup shows the first tab of every container
MainInit ==
  /\ WidgetInit
  /\ SnippetIdle
  /\ ThemeIdle
  /\ hasSidebar \in BOOLEAN
  /\ hasMenu \in BOOLEAN
  /\ sidebarOpen = FALSE
  /\ menuOpen = FALSE
  /\ toggleOpen = FALSE
  /\ ariaExpanded = "false"
  /\ navEvent = "load"
  /\ activeTriggers = [c \in Containers |-> {1}]
  /\ activePanels = [c \in Containers |-> {1}]
  /\ tabClicked = <<>>
  /\ panelsBefore = {}

MainNext ==
  \/ NavToggleClick
  \/ \E target \in ClickTargets : DocumentClick(target)
  \/ \E c \in Containers, t \in Triggers : TabClick(c, t)

MainSpec == MainInit /\ [][MainNext]_vars

\* ------------------------------------------------------------------ typing

TypeOK ==
  /\ modalOpen \in BOOLEAN
  /\ scrollLocked \in BOOLEAN
  /\ inputValue \in Queries
  /\ searchIndex \in {NULL, "set"}
  /\ searchData \in Responses
  /\ selectedIndex \in -1..LargeSize
  /\ view \in {"template", "idle", "empty", "list"}
  /\ fetchCount \in 0..MaxFetches
  /\ fetching + parsing <= fetchCount
  /\ rejectedLoads = 0
  /\ threw \in BOOLEAN
  /\ uncaught \in 0..MaxUncaught
  /\ selectedElems \subseteq 0..(Len(rendered) - 1)
  /\ (~ threw /\ lastEvent = "input") => selectedElems \subseteq {selectedIndex}


\* ------------------------------------------------------------- properties

\* the handlers of the user's open, close, query and navigation events
UIEvents ==
  { "open", "escape", "backdrop", "input", "up", "down", "enter", "click",
    "content-click" }

\* no load is suspended at an await
NoLoadPending == fetching = 0 /\ parsing = 0

\* C1: for any sequence of open() calls in one page session, a second one
\* issued while the first fetch is in flight included, at most one request
\* for /index.json is ever issued.
C1_AtMostOneFetch == fetchCount <= 1

\* C2: once a load has succeeded the index is retained: no later open, close,
\* query or navigation event issues another fetch, none of them changes the
\* cached documents, and searchIndex is never cleared.
C2_IndexRetained ==
  [][searchIndex # NULL =>
       /\ searchIndex' # NULL
       /\ fetchCount' = fetchCount
       /\ (lastEvent' \in UIEvents => searchData' = searchData)]_vars

\* C2 witness: open() ran after the only load had succeeded and issued no fetch
C2_Witness ==
  /\ lastEvent = "open"
  /\ searchIndex # NULL
  /\ searchData # <<>>
  /\ fetchCount = 1
  /\ NoLoadPending

\* C3: once the cached index holds the documents of one response, its
\* contents never change, under every interleaving of open() calls and fetch
\* completions.
C3_IndexNeverChanges ==
  [][searchIndex # NULL => searchData' = searchData]_vars

\* C4: when the fetch or the JSON parse fails, load() completes normally and
\* the index is empty: every query typed from then on, until a later load
\* succeeds, renders zero results.
C4_FailedLoadLeavesIndexEmpty ==
  lastEvent = "load-failed" =>
    /\ rejectedLoads = 0
    /\ \A q \in Queries : performSearchItems(q) = <<>>

\* C5: -1 <= selectedIndex < number of rendered results, in every reachable
\* state.
C5_SelectedIndexInRange ==
  /\ -1 <= selectedIndex
  /\ selectedIndex < Len(rendered)

\* C5 witness: a navigation key left the selection on the last of several
\* results
C5_Witness ==
  /\ lastEvent \in {"up", "down"}
  /\ Len(rendered) >= 2
  /\ selectedIndex = Len(rendered) - 1

\* C6: every change of the query text resets selectedIndex to -1 before the
\* results are rendered again (once they are, no rendered element is marked
\* selected), whatever the selection was and even when the same documents
\* are rendered.
C6_QueryChangeResetsSelection ==
  lastEvent = "input" =>
    /\ selectedIndex = -1
    /\ (~ threw => selectedElems = {})

\* C6 witness: a result was selected, the query changed and the same
\* documents are rendered again
C6_Witness ==
  /\ lastEvent = "input"
  /\ prevSelected >= 0
  /\ rendered # <<>>
  /\ rendered = prevRendered
  /\ selectedIndex = -1

\* searchData has just been given its value (it changes at no other step)
IndexJustSet == lastEvent \in {"load", "load-done"}

\* the positions of the documents of index that q selects
Hits(q, index) ==
  { i \in DOMAIN index : Matches(index[i], toLowerCase(q)) }

\* C7: for every query q and every index I, match(q, I) has at most 10
\* elements (every index is looked at when searchData is given its value).
C7_AtMostTenMatches ==
  /\ IndexJustSet => \A q \in Queries : Len(search(q, searchData)) <= 10
  /\ Len(rendered) <= 10

\* C7 witness: more than 10 documents match the query typed and 10 are
\* rendered
C7_Witness ==
  /\ lastEvent = "input"
  /\ Cardinality(Hits(inputValue, searchData)) > 10
  /\ Len(rendered) = 10

\* s contains t, letter case ignored
ContainsIgnoringCase(s, t) ==
  \E i \in 0..(Len(s) - Len(t)) :
    \A k \in 1..Len(t) : LowerChar(s[i + k]) = LowerChar(t[k])

\* the positions of the documents whose title or content contains q
Containing(q, index) ==
  { i \in DOMAIN index :
      \/ ContainsIgnoringCase(index[i].title, q)
      \/ ContainsIgnoringCase(index[i].content, q) }

\* r is the documents at the first 10 (or fewer) positions of P, in order
IsFirstTenOf(r, P, index) ==
  /\ Len(r) = (IF Cardinality(P) < 10 THEN Cardinality(P) ELSE 10)
  /\ \A k \in DOMAIN r :
       \E i \in P :
         /\ Cardinality({ j \in P : j < i }) = k - 1
         /\ r[k] = index[i]

\* C8: for a non-blank query q, match(q, I) is the first 10 (or fewer)
\* documents of I, in index order, whose title or content contains q as a
\* case-insensitive substring; a document with empty content is matched on
\* its title alone.
C8_MatchIsFirstTenContaining ==
  /\ IndexJustSet =>
       \A q \in Queries :
         trim(q) # <<>> =>
           IsFirstTenOf(search(q, searchData), Containing(q, searchData), searchData)
  /\ (lastEvent = "input" /\ ~ threw /\ searchIndex # NULL
        /\ trim(inputValue) # <<>>) =>
       IsFirstTenOf(rendered, Containing(inputValue, searchData), searchData)

\* C8 witness: an upper-case query is rendered with a document matched by its
\* lower-case content, after one of empty content matched by its title
C8_Witness ==
  /\ lastEvent = "input"
  /\ inputValue = <<"A">>
  /\ Len(rendered) >= 2
  /\ rendered[1].content = <<>>
  /\ ~ ContainsIgnoringCase(rendered[2].title, inputValue)

\* C9: for an empty or whitespace-only query the result set is empty for
\* every index, loaded or not.
C9_BlankQueryMatchesNothing ==
  /\ \A q \in Queries : trim(q) = <<>> => performSearchItems(q) = <<>>
  /\ (lastEvent = "input" /\ trim(inputValue) = <<>>) => rendered = <<>>

\* C9 witness: a whitespace-only query was typed over a loaded index holding
\* documents that contain a space, and nothing is rendered
C9_Witness ==
  /\ lastEvent = "input"
  /\ inputValue = <<" ">>
  /\ searchIndex # NULL
  /\ Hits(inputValue, searchData) # {}
  /\ rendered = <<>>

\* C10: for an empty index, every query yields an empty result set.
C10_EmptyIndexMatchesNothing ==
  /\ searchData = <<>> =>
       \A q \in Queries : search(q, searchData) = <<>> /\ performSearchItems(q) = <<>>
  /\ (lastEvent = "input" /\ searchData = <<>>) => rendered = <<>>

\* C10 witness: a non-blank query was typed over a loaded, empty index
C10_Witness ==
  /\ lastEvent = "input"
  /\ searchIndex # NULL
  /\ searchData = <<>>
  /\ trim(inputValue) # <<>>
  /\ view = "empty"
  /\ rendered = <<>>


\* what close() leaves behind
ClosedAndReset ==
  /\ ~ modalOpen
  /\ ~ scrollLocked
  /\ inputValue = <<>>
  /\ selectedIndex = -1
  /\ view = "idle"
  /\ rendered = <<>>

\* C11: navigate('down') with N > 0 results sets selectedIndex to
\* (selectedIndex + 1) mod N: from -1 to 0, from N - 1 back to 0.
C11_DownAdvancesModulo ==
  (lastEvent = "down" /\ Len(rendered) > 0) =>
    selectedIndex =
      (IF prevSelected = Len(rendered) - 1 THEN 0 ELSE prevSelected + 1)

\* C11 witness: ArrowDown on the last of several results wrapped to the first
C11_Witness ==
  /\ lastEvent = "down"
  /\ Len(rendered) >= 2
  /\ prevSelected = Len(rendered) - 1
  /\ selectedIndex = 0

\* C12: navigate('up') with N > 0 results sets selectedIndex to N - 1 when it
\* is 0 or -1, and to selectedIndex - 1 otherwise.
C12_UpWrapsToLast ==
  (lastEvent = "up" /\ Len(rendered) > 0) =>
    selectedIndex =
      (IF prevSelected \in {0, -1} THEN Len(rendered) - 1 ELSE prevSelected - 1)

\* C12 witness: ArrowUp on the first of several results wrapped to the last
C12_Witness ==
  /\ lastEvent = "up"
  /\ Len(rendered) >= 2
  /\ prevSelected = 0
  /\ selectedIndex = Len(rendered) - 1

\* C13: navigate('up') and navigate('down') change nothing when no results
\* are rendered: selectedIndex, the rendered list and the modal state stay.
C13_NavigateNoOpWhenEmpty ==
  [][(lastEvent' \in {"up", "down"} /\ Len(rendered) = 0) =>
       UNCHANGED << selectedIndex, selectedElems, view, rendered, inputValue,
                    modalOpen, scrollLocked >>]_vars

\* C13 witness: an arrow key was pressed over the 'No results found' state
C13_Witness ==
  /\ lastEvent \in {"up", "down"}
  /\ modalOpen
  /\ view = "empty"
  /\ rendered = <<>>
  /\ selectedIndex = -1

\* C14: Enter navigates to the permalink of the rendered result at
\* selectedIndex when selectedIndex >= 0; with selectedIndex = -1 it
\* navigates nowhere and changes no state.
C14_EnterFollowsSelection ==
  [][lastEvent' = "enter" =>
       IF selectedIndex >= 0
       THEN location' = rendered[selectedIndex + 1].permalink
       ELSE UNCHANGED << modalOpen, scrollLocked, inputValue, searchIndex,
                         searchData, selectedIndex, view, rendered,
                         selectedElems, fetchCount, fetching, parsing,
                         location >>]_vars

\* C14 witness: Enter was pressed with a result other than the first selected
C14_Witness ==
  /\ lastEvent = "enter"
  /\ selectedIndex >= 1
  /\ location = rendered[selectedIndex + 1].permalink

\* C15: a click on a rendered result navigates to the permalink of the
\* clicked result, whatever selectedIndex is.
C15_ClickFollowsClicked ==
  lastEvent = "click" =>
    /\ clicked \in DOMAIN rendered
    /\ location = rendered[clicked].permalink

\* C15 witness: a result was clicked while another one was selected
C15_Witness ==
  /\ lastEvent = "click"
  /\ selectedIndex >= 0
  /\ clicked # selectedIndex + 1
  /\ location = rendered[clicked].permalink
  /\ location # rendered[selectedIndex + 1].permalink

\* C16: close() leaves the modal Closed, the query input empty,
\* selectedIndex = -1, the result list Idle and page scrolling restored, from
\* whatever Open state it is called in.
C16_CloseResets ==
  [][(lastEvent' \in {"escape", "backdrop"} /\ modalOpen) => ClosedAndReset']_vars

\* C16 witness: the modal was closed while results were rendered and one of
\* them was selected
C16_Witness ==
  /\ lastEvent \in {"escape", "backdrop"}
  /\ prevSelected >= 0
  /\ prevRendered # <<>>
  /\ ClosedAndReset

\* C17: open(), by Ctrl/Cmd+K or a trigger control, moves the modal to Open,
\* locks page scrolling and calls the index loader (which fetches unless the
\* index is set), from Closed and from Open alike.
C17_OpenOpens ==
  [][lastEvent' = "open" =>
       /\ modalOpen'
       /\ scrollLocked'
       /\ IF searchIndex = NULL
          THEN fetchCount' = fetchCount + 1 /\ fetching' = fetching + 1
          ELSE UNCHANGED << fetchCount, fetching >>]_vars

\* C17 witness: open() ran on a modal that was Open already (a query is still
\* in the input) and the loader was called
C17_Witness ==
  /\ lastEvent = "open"
  /\ modalOpen
  /\ scrollLocked
  /\ inputValue # <<>>
  /\ fetchCount >= 2

\* C18: every trigger of close() closes the modal: Escape while Open, a
\* pointer event on the backdrop, and a navigation away by select() or by a
\* click on a result each leave the modal Closed with close()'s resets.
C18_EveryTriggerCloses ==
  [][(\/ (lastEvent' \in {"escape", "backdrop"} /\ modalOpen)
      \/ (lastEvent' \in {"enter", "click"} /\ location' # NULL)) =>
       ClosedAndReset']_vars


\* the offsets at which t occurs in s, letter case ignored
Occurrences(s, t) ==
  { i \in 0..(Len(s) - Len(t)) :
      \A k \in 1..Len(t) : LowerChar(s[i + k]) = LowerChar(t[k]) }

\* the least element of a non-empty set of integers
Least(S) == CHOOSE i \in S : \A j \in S : i <= j

\* the first n characters of s
Prefix(s, n) == [i \in 1..(IF n < Len(s) THEN n ELSE Len(s)) |-> s[i]]

\* the returned fragment without its highlight markers
StripMarks(s) ==
  LET Kept(c) == c \notin {MarkOpen, MarkClose}
  IN  SelectSeq(s, Kept)

\* the call has ended and query is empty or does not occur in content
CallEndedNotFound ==
  /\ snOut # Pending
  /\ (snQuery = <<>> \/ Occurrences(snContent, snQuery) = {})

\* the call has ended and query is not empty and occurs in content
CallEndedFound ==
  /\ snOut # Pending
  /\ snQuery # <<>>
  /\ Occurrences(snContent, snQuery) # {}

\* C19: when query is empty or does not occur in content, extract returns
\* the first maxLength (120) characters of content, without highlight marker,
\* followed by "..." if and only if content is longer than maxLength.
C19_NotFoundGivesPrefix ==
  CallEndedNotFound =>
    snOut = Prefix(snContent, 120)
              \o (IF Len(snContent) > 120 THEN Ellipsis ELSE <<>>)

\* what the code does instead when a non-empty query does not occur in a
\* non-empty content: the ellipsis is appended whatever the length; and an
\* empty query gives the empty string
C19_AsCoded ==
  CallEndedNotFound =>
    snOut = (IF snQuery = <<>> \/ snContent = <<>> THEN <<>>
             ELSE Prefix(snContent, 120) \o Ellipsis)

\* the text the window of C20 asks for, the first occurrence being at i
WindowText(content, query, i) ==
  LET from == IF i - 40 > 0 THEN i - 40 ELSE 0
      to == IF i + Len(query) + 80 < Len(content)
            THEN i + Len(query) + 80 ELSE Len(content)
  IN  (IF from # 0 THEN Ellipsis ELSE <<>>)
        \o [k \in 1..(to - from) |-> content[from + k]]
        \o (IF to # Len(content) THEN Ellipsis ELSE <<>>)

\* C20: when query first occurs (case-insensitively) in content at offset i,
\* the excerpt is the window [max(0, i-40), min(len, i+len(query)+80)] of
\* content, with an ellipsis before it exactly when the window does not start
\* at 0 and one after it exactly when it does not end at len(content).
C20_FoundGivesWindow ==
  CallEndedFound =>
    StripMarks(snOut) =
      WindowText(snContent, snQuery, Least(Occurrences(snContent, snQuery)))

\* C20, for the queries new RegExp accepts: the window is as stated
C20_WindowWhenPatternCompiles ==
  (CallEndedFound /\ PatternValid(snQuery)) =>
    StripMarks(snOut) =
      WindowText(snContent, snQuery, Least(Occurrences(snContent, snQuery)))

\* C20, scenario B: length 500, found at 200, both ellipses
C20_ScenarioB ==
  /\ snOut # Pending
  /\ Len(snContent) = 500
  /\ snQuery = <<"a", "b">>
  /\ Least(Occurrences(snContent, snQuery) \cup {500}) = 200
  /\ StripMarks(snOut) =
       Ellipsis \o SubSeq(snContent, 161, 282) \o Ellipsis


\* a highlight marker
IsMark(c) == c \in {MarkOpen, MarkClose}

\* the markers of a fragment, in order
MarksOf(out) == SelectSeq(out, IsMark)

\* the offsets, counted in the text without markers, at which tag stands
MarkOffsets(out, tag) ==
  { j - 1 - Cardinality({ h \in 1..(j - 1) : IsMark(out[h]) }) :
      j \in { i \in DOMAIN out : out[i] = tag } }

\* out is text with exactly the stretches [i, i + len), i in starts, each
\* wrapped in one pair of markers, and every character of text as it was
WrapsExactly(out, text, starts, len) ==
  /\ StripMarks(out) = text
  /\ Len(MarksOf(out)) = 2 * Cardinality(starts)
  /\ \A k \in DOMAIN MarksOf(out) :
       MarksOf(out)[k] = (IF k % 2 = 1 THEN MarkOpen ELSE MarkClose)
  /\ MarkOffsets(out, MarkOpen) = starts
  /\ MarkOffsets(out, MarkClose) = { i + len : i \in starts }

\* where the window of content around the first occurrence starts and ends
FirstAt(content, query) == Least(Occurrences(content, query))
WinFrom(content, query) ==
  IF FirstAt(content, query) - 40 > 0 THEN FirstAt(content, query) - 40 ELSE 0
WinTo(content, query) ==
  IF FirstAt(content, query) + Len(query) + 80 < Len(content)
  THEN FirstAt(content, query) + Len(query) + 80
  ELSE Len(content)

\* the offsets in the excerpt (ellipsis included) of the occurrences of query
\* that lie in the window; the occurrences of the queries tried are disjoint
WindowOccurrences(content, query) ==
  LET from == WinFrom(content, query)
      to == WinTo(content, query)
      lead == IF from # 0 THEN 3 ELSE 0
  IN  { i - from + lead :
          i \in { h \in Occurrences(content, query) :
                    from <= h /\ h + Len(query) <= to } }

\* the excerpt has exactly the occurrences of query in its window wrapped
LiteralHighlight ==
  WrapsExactly(snOut,
               WindowText(snContent, snQuery, FirstAt(snContent, snQuery)),
               WindowOccurrences(snContent, snQuery), Len(snQuery))

\* the characters of a pattern that new RegExp does not take literally
IsMeta(c) == c \in {".", "*", "("}

HasMeta(query) == \E k \in DOMAIN query : IsMeta(query[k])

\* C21: within the window every case-insensitive occurrence of query, and
\* nothing else, is wrapped in a highlight marker, the text keeping its
\* casing; a content shorter than the window bounds comes back whole, with
\* its occurrences marked and no ellipsis.
C21_EveryOccurrenceMarked ==
  CallEndedFound =>
    /\ LiteralHighlight
    /\ Len(snContent) <= 40 => StripMarks(snOut) = snContent

\* C21, for the queries without a character that is special in a pattern
C21_MarkedWhenQueryIsPlain ==
  (CallEndedFound /\ ~ HasMeta(snQuery)) =>
    /\ LiteralHighlight
    /\ Len(snContent) <= 40 => StripMarks(snOut) = snContent

\* C22: a query holding regex metacharacters such as '.' or '*' is matched
\* and highlighted as a literal string: only the literal occurrences of the
\* query text are wrapped, and no other character of the snippet (the
\* ellipses added included) is highlighted.
C22_MetacharactersAreLiteral ==
  (CallEndedFound /\ HasMeta(snQuery)) =>
    /\ snOut # Thrown
    /\ LiteralHighlight

\* C26: the snippet returned is HTML-safe: apart from the highlight markers
\* added, no character of content or query that is significant in HTML
\* ('<', '>', '&') stands unescaped in it.
C26_SnippetIsHtmlSafe ==
  (snOut # Pending /\ snOut # Thrown) =>
    \A k \in DOMAIN snOut : snOut[k] \notin {"<", ">", "&"}

\* C23: no event handler of the search widget ends in an uncaught exception,
\* for every query string (one that is not a valid pattern, such as "(",
\* included), every outcome of the load and every index content.
C23_NoUncaughtException == ~ threw /\ uncaught = 0

\* C24: when the modal is closed while the fetch is pending, the load still
\* ends and sets the index, its end changes nothing visible (the modal stays
\* Closed, the result list Idle, selectedIndex -1), and the open() after it
\* issues no fetch.
C24_LateLoadChangesNothingVisible ==
  [][/\ (lastEvent' = "load-done" /\ ~ modalOpen) =>
          /\ searchIndex' # NULL
          /\ ClosedAndReset
          /\ ClosedAndReset'
          /\ UNCHANGED << modalOpen, scrollLocked, inputValue, selectedIndex,
                          view, rendered, selectedElems >>
     /\ (lastEvent' = "open" /\ lastEvent = "load-done") =>
          UNCHANGED << fetchCount, fetching, parsing >>]_vars

\* C24 witness: the only load ended with documents while the modal was
\* Closed and its list Idle
C24_Witness ==
  /\ lastEvent = "load-done"
  /\ ClosedAndReset
  /\ searchIndex # NULL
  /\ searchData # <<>>
  /\ fetchCount = 1

\* C25: while the fetch has not completed, every non-blank query typed leaves
\* the result list Empty (zero results), no handler fails, and open, close
\* and typing stay enabled.
C25_StalledFetchShowsEmpty ==
  (searchIndex = NULL /\ fetching + parsing > 0) =>
    /\ (modalOpen /\ trim(inputValue) # <<>>) =>
         (view = "empty" /\ rendered = <<>>)
    /\ ~ threw
    /\ rejectedLoads = 0
    /\ PageAlive
    /\ ENABLED KeydownEscape
    /\ modalOpen => ENABLED BackdropClick
    /\ modalOpen => \A v \in Queries : ENABLED InputEvent(v)
    /\ fetchCount < MaxFetches => ENABLED TriggerClick

\* C25 witness: a non-blank query was typed while the fetch was pending and
\* 'No results found' is shown
C25_Witness ==
  /\ lastEvent = "input"
  /\ searchIndex = NULL
  /\ fetching > 0
  /\ trim(inputValue) # <<>>
  /\ view = "empty"

\* C29: whenever the modal is Open and the index is loaded, the rendered
\* result list is match(value of the query input, index); so a non-blank
\* query typed before the load ended has its matches shown once the load
\* succeeds, without another keystroke.
C29_RenderedIsMatchOfInput ==
  (modalOpen /\ searchIndex # NULL) =>
    rendered = performSearchItems(inputValue)

\* C30: a failed load is not kept: the failure leaves the index as it was
\* (unset when it was unset), the next open() with the index unset issues a
\* new fetch, and once a load succeeds queries return their matches.
C30_FailedLoadNotMemoized ==
  /\ [][/\ lastEvent' = "load-failed" => UNCHANGED << searchIndex, searchData >>
        /\ (lastEvent' = "open" /\ searchIndex = NULL) =>
             (fetchCount' = fetchCount + 1 /\ fetching' = fetching + 1)]_vars
  /\ [](lastEvent = "load-done" =>
          /\ searchIndex # NULL
          /\ \A q \in Queries :
               (trim(q) # <<>> /\ Hits(q, searchData) # {}) =>
                 performSearchItems(q) # <<>>)

\* C30 witness: after the first load failed (the index is unset and one of
\* the two fetches issued has ended), open() has issued the second fetch
C30_Witness ==
  /\ lastEvent = "open"
  /\ searchIndex = NULL
  /\ fetchCount = 2
  /\ fetching = 1
  /\ parsing = 0


\* C27: as long as the user has made no explicit theme choice (has never
\* clicked the theme toggle), the applied theme is the system preference:
\* every change of the system colour-scheme preference, not only the first,
\* changes the applied theme to match.
C27_SystemPreferenceFollowed ==
  (themeEvent = "system" /\ ~ explicitChoice) =>
    (themeApplied = getSystemTheme /\ iconsTheme = getSystemTheme)

\* C28: a click on the theme toggle flips the theme between 'dark' and
\* 'light', applies it to the document and persists it, so that after any
\* toggle click the stored theme is the applied theme, and two consecutive
\* clicks restore the theme that was in effect before them.
C28_ToggleFlipsAndPersists ==
  themeEvent = "toggle" =>
    /\ themeApplied \in Themes
    /\ themeApplied # themeBefore
    /\ themeStored = themeApplied
    /\ iconsTheme = themeApplied
    /\ prevThemeEvent = "toggle" => themeApplied = themeBefore2

\* C28 witness: two clicks in a row, on a page whose theme came from a
\* system preference for light
C28_Witness ==
  /\ themeEvent = "toggle"
  /\ prevThemeEvent = "toggle"
  /\ systemLight
  /\ themeBefore2 = "light"
  /\ themeBefore = "dark"
  /\ themeApplied = "light"
  /\ themeStored = "light"


\* what the widget shows besides the result list
Visible == << modalOpen, scrollLocked, inputValue, selectedIndex, view, rendered, selectedElems >>

\* C31: the modal starts Closed with selectedIndex = -1 on page load, and
\* Escape while Closed changes nothing: the modal state, the query input,
\* selectedIndex, the rendered list and the scroll lock all stay.
C31_StartsClosedEscapeNoOp ==
  /\ [](lastEvent = "load" => (~ modalOpen /\ selectedIndex = -1))
  /\ [][(lastEvent' = "escape" /\ ~ modalOpen) => UNCHANGED Visible]_vars

\* C31 witness: Escape was pressed on the page as loaded, whose result list
\* the script has never rendered
C31_Witness ==
  /\ lastEvent = "escape"
  /\ ~ modalOpen
  /\ view = "template"
  /\ selectedIndex = -1

\* C32: in every reachable state page scrolling is locked if and only if the
\* modal is Open, after any sequence of open (repeated or not), Escape,
\* backdrop click, query and fetch-completion events.
C32_ScrollLockedIffOpen == scrollLocked <=> modalOpen

\* C32 witness: the modal was opened twice, a query typed, and the backdrop
\* click closed it and released the scroll lock
C32_Witness ==
  /\ lastEvent = "backdrop"
  /\ fetchCount = 2
  /\ prevRendered # <<>>
  /\ ~ modalOpen
  /\ ~ scrollLocked

C34_ContentClickAndReopenKeep ==
  [][/\ lastEvent' = "content-click" => (modalOpen' /\ UNCHANGED Visible)
     /\ (lastEvent' = "open" /\ modalOpen) =>
          UNCHANGED Visible]_vars

\* C34 witness: the content of the modal was clicked while results were
\* rendered and one of them selected
C34_Witness ==
  /\ lastEvent = "content-click"
  /\ modalOpen
  /\ rendered # <<>>
  /\ selectedIndex >= 0
  /\ inputValue # <<>>

\* C35: the result list shows the Idle prompt exactly when the query input
\* is empty, and the Empty ('No results found') state exactly when the input
\* is non-empty and there are zero matches; a whitespace-only query shows
\* Empty, not Idle. (Stated of the list once the script has rendered it.)
C35_IdleAndEmptyExactly ==
  (modalOpen /\ view # "template") =>
    /\ view = "idle" <=> inputValue = <<>>
    /\ view = "empty" <=>
         (inputValue # <<>> /\ performSearchItems(inputValue) = <<>>)

\* C35, for the list as an 'input' listener that returned leaves it
C35_AfterRender ==
  (lastEvent = "input" /\ ~ threw) =>
    /\ view = "idle" <=> inputValue = <<>>
    /\ view = "empty" <=>
         (inputValue # <<>> /\ performSearchItems(inputValue) = <<>>)
    /\ (inputValue # <<>> /\ trim(inputValue) = <<>>) => view = "empty"


\* C36: the excerpt is bounded: the text taken from content has length at
\* most 120 when the query is not found and at most 40 + len(query) + 80 when
\* it is found, and the window holds the first occurrence of the query in
\* full.
C36_ExcerptIsBounded ==
  /\ CallEndedNotFound =>
       (snOut = <<>> \/ Len(snOut) - Len(Ellipsis) <= 120)
  /\ CallEndedFound =>
       LET i == FirstAt(snContent, snQuery)
           from == WindowStart(i)
           to == WindowEnd(snContent, snQuery, i)
           lead == IF from > 0 THEN Len(Ellipsis) ELSE 0
           tail == IF to < Len(snContent) THEN Len(Ellipsis) ELSE 0
       IN  /\ to - from <= 40 + Len(snQuery) + 80
           /\ from <= i
           /\ i + Len(snQuery) <= to
           /\ snOut # Thrown =>
                /\ Len(StripMarks(snOut)) - lead - tail <= 40 + Len(snQuery) + 80
                /\ SubSeq(StripMarks(snOut), lead + i - from + 1,
                          lead + i - from + Len(snQuery))
                     = SubSeq(snContent, i + 1, i + Len(snQuery))

\* C36 witness: a window of the full 40 + 2 + 80 characters, cut out of the
\* middle of a content of 500
C36_Witness ==
  /\ CallEndedFound
  /\ snOut # Thrown
  /\ Len(snContent) = 500
  /\ Len(snQuery) = 2
  /\ FirstAt(snContent, snQuery) = 200
  /\ Len(StripMarks(snOut)) = 3 + 122 + 3


\* the panel the toggle controls is open
PanelOpen ==
  IF hasSidebar THEN sidebarOpen ELSE IF hasMenu THEN menuOpen ELSE FALSE

\* C37: mobile navigation keeps toggle and panel consistent: after any
\* sequence of toggle clicks, outside clicks and clicks inside the panel, the
\* toggle has class 'open' and aria-expanded='true' if and only if the panel
\* it controls (the docs sidebar on docs pages, the mobile menu elsewhere) is
\* open, including on a docs page where a mobile menu element also exists.
C37_ToggleMatchesPanel ==
  /\ toggleOpen <=> PanelOpen
  /\ ariaExpanded = "true" <=> PanelOpen

\* C37, the pages the claim holds on: toggle and panel agree unless the page
\* has both a sidebar and a mobile menu
C37_ConsistentWithOnePanel ==
  ~ (hasSidebar /\ hasMenu) => C37_ToggleMatchesPanel

\* C38: in a tab container, after a click on a tab trigger exactly that
\* trigger is active and no panel other than the one named by its data-tab is
\* active, so at most one panel is active after any sequence of clicks (none
\* when the named panel does not exist).
C38_OneActiveTab ==
  /\ \A c \in Containers : Cardinality(activePanels[c]) <= 1
  /\ tabClicked # <<>> =>
       LET c == tabClicked[1]
           t == tabClicked[2]
       IN  /\ activeTriggers[c] = {t}
           /\ activePanels[c] \subseteq {t}
           /\ t \notin Panels => activePanels[c] = {}
           /\ t \in Panels => activePanels[c] = {t}

\* C38 witness: a click on the trigger that names no panel, in a container
\* whose second panel was active, leaves the container without active panel
C38_Witness ==
  /\ tabClicked = << 2, TabCount >>
  /\ panelsBefore = {2}
  /\ activePanels[2] = {}
  /\ activeTriggers[2] = {TabCount}
  /\ activePanels[1] = {2}

====
